---- MODULE Spec2Model ----
(***************************************************************************)
(* Model of python/compare.py: the comparison of two mesh files stored as  *)
(* HDF5 containers (construct_cells, construct_fields, compare_meshes and  *)
(* the module-level driver that runs one comparison or a range of them).   *)
(*                                                                         *)
(* Representation of the data                                              *)
(*   - an n-dimensional numpy array is a record [shape, data]; data is the *)
(*     nested sequence of its rows, shape the numpy shape tuple (an array  *)
(*     with no rows still has its trailing dimensions);                    *)
(*   - a one-dimensional array (a field dataset, an index array) is a      *)
(*     sequence; index arrays hold 0-based positions as numpy does;        *)
(*   - an HDF5 group is a function from its keys (strings) to its members; *)
(*     its keys are iterated in increasing name order;                     *)
(*   - a Python dict is a record [order, data]: the keys in insertion      *)
(*     order and the mapping;                                              *)
(*   - a coordinate is a 16-bit unsigned integer stored little-endian;     *)
(*   - a field value is an integer number of units of 1e-15.               *)
(***************************************************************************)
EXTENDS Integers, Sequences, FiniteSets, TLC

VARIABLES
    args,       \* the parsed command line: [start, end], each <<>> (None) or <<n>>
    pc,         \* position of the script
    todo,       \* the file-name suffixes still to compare, in order
    cur,        \* the suffix of the comparison in progress: <<>> or <<i>>
    mesh1,      \* what has been read of the first file's "mesh" group
    mesh2,      \* what has been read of the second file's "mesh" group
    cells1,     \* compare_meshes' local cells1
    cells2,     \* compare_meshes' local cells2
    index1,     \* compare_meshes' local index1
    index2,     \* compare_meshes' local index2
    field1,     \* compare_meshes' local field1
    field2,     \* compare_meshes' local field2
    pos,        \* position of the loop over field1.keys() (1-based)
    out,        \* the lines printed on standard output
    exit        \* the termination of the process: exit status and stderr text

vars == <<args, pc, todo, cur, mesh1, mesh2, cells1, cells2, index1, index2,
          field1, field2, pos, out, exit>>

(***************************************************************************)
(* Bounds of the model.                                                    *)
(***************************************************************************)
\* the largest number of cells of a mesh
MaxCells == 2
\* the largest value of --start and --end
MaxIndex == 2

\* tol = 1e-14, in units of 1e-15
tol == 10

\* a local that has not been assigned yet
None == [none |-> TRUE]

(***************************************************************************)
(* numpy and h5py primitives.                                              *)
(***************************************************************************)
\* np.abs on a number
np_abs(x) == IF x < 0 THEN -x ELSE x

\* the keys of an HDF5 group (or of another name-ordered mapping) in
\* iteration order: `names` is the increasing order of all names in use
keys(group, names) == SelectSeq(names, LAMBDA k : k \in DOMAIN group)

\* the name order of sub-Block names and of field names
BlockNames == <<"b0", "b1">>
FieldNames == <<"pressure", "velocity">>

\* a[idx] for a sequence a and an index array idx (fancy indexing)
take(a, idx) == [j \in 1..Len(idx) |-> a[idx[j] + 1]]

\* fancy indexing raises IndexError when an index is out of bounds
in_bounds(a, idx) == \A j \in 1..Len(idx) : idx[j] < Len(a)

\* a concatenation that puts the new rows first
np_concatenate_swapped(a, b) ==
    [shape |-> <<a.shape[1] + b.shape[1]>> \o Tail(a.shape),
     data  |-> b.data \o a.data]

\* np.concatenate((a, b)) along the first axis (the trailing dimensions of
\* a and b agree)
np_concatenate(a, b) ==
    [shape |-> <<a.shape[1] + b.shape[1]>> \o Tail(a.shape),
     data  |-> a.data \o b.data]

\* points[:][conn[:]]: the gather of the point rows named by conn
gather(points, conn) ==
    [shape |-> conn.shape \o Tail(points.shape),
     data  |-> [i \in 1..Len(conn.data) |->
                  [j \in 1..Len(conn.data[i]) |->
                     points.data[conn.data[i][j] + 1]]]]

\* the bytes of one coordinate (16 bits, little-endian)
elem_bytes(x) == <<x % 256, x \div 256>>

RECURSIVE flat_bytes(_)
\* the bytes of a sequence of coordinates
flat_bytes(xs) ==
    IF xs = <<>> THEN <<>> ELSE elem_bytes(Head(xs)) \o flat_bytes(Tail(xs))

RECURSIVE tobytes(_)
\* c.tobytes() for a cell c: its vertices in order, each one's coordinates
tobytes(c) ==
    IF c = <<>> THEN <<>> ELSE flat_bytes(Head(c)) \o tobytes(Tail(c))

RECURSIVE strip_nul(_)
\* np.asarray of bytes objects makes a fixed-width 'S' array, whose items
\* lose their trailing NUL bytes
strip_nul(b) ==
    IF b # <<>> /\ b[Len(b)] = 0 THEN strip_nul(SubSeq(b, 1, Len(b) - 1))
    ELSE b

\* keys made of the first vertex of each cell only
sort_keys_first_vertex(cells) ==
    [i \in 1..Len(cells.data) |-> strip_nul(flat_bytes(cells.data[i][1]))]

\* np.asarray([c.tobytes() for c in cells])
sort_keys(cells) == [i \in 1..Len(cells.data) |-> strip_nul(tobytes(cells.data[i]))]

RECURSIVE bytes_less(_, _)
\* the order of 'S' items: bytewise, a shorter item padded with NUL
bytes_less(a, b) ==
    IF a = <<>> /\ b = <<>> THEN FALSE
    ELSE LET x == IF a = <<>> THEN 0 ELSE Head(a)
             y == IF b = <<>> THEN 0 ELSE Head(b)
         IN  IF x # y THEN x < y
             ELSE bytes_less(IF a = <<>> THEN a ELSE Tail(a),
                             IF b = <<>> THEN b ELSE Tail(b))

\* one step of the insertion sort: index j goes after every index already
\* placed whose key is not greater
insert(sorted, j, ks) ==
    LET before == SelectSeq(sorted, LAMBDA i : ~bytes_less(ks[j + 1], ks[i + 1]))
        after  == SelectSeq(sorted, LAMBDA i : bytes_less(ks[j + 1], ks[i + 1]))
    IN  before \o <<j>> \o after

RECURSIVE argsort_upto(_, _)
argsort_upto(ks, n) ==
    IF n = 0 THEN <<>> ELSE insert(argsort_upto(ks, n - 1), n - 1, ks)

\* a sort that leaves the items where they are
argsort_unsorted(ks) == [j \in 1..Len(ks) |-> j - 1]

\* np.argsort(ks): numpy sorts arrays of this size by insertion
argsort(ks) == argsort_upto(ks, Len(ks))

(***************************************************************************)
(* The Mesh Assembler.                                                     *)
(***************************************************************************)
RECURSIVE cells_of_blocks(_, _)
\* the loop of construct_cells over the sub-Blocks ks of mesh
cells_of_blocks(mesh, ks) ==
    IF Len(ks) = 1 THEN gather(mesh[ks[1]].points, mesh[ks[1]].connectivity)
    ELSE LET k == ks[Len(ks)]
         IN  np_concatenate(cells_of_blocks(mesh, SubSeq(ks, 1, Len(ks) - 1)),
                            gather(mesh[k].points, mesh[k].connectivity))

construct_cells(mesh) ==
    IF "points" \in DOMAIN mesh
    THEN gather(mesh.points, mesh.connectivity)
    ELSE cells_of_blocks(mesh, keys(mesh, BlockNames))

\* an accumulation that puts a later sub-Block's values first
add_field_front(output, values, f) ==
    IF f \notin DOMAIN output.data
    THEN [order |-> Append(output.order, f), data |-> output.data @@ (f :> values)]
    ELSE [order |-> output.order,
          data  |-> [output.data EXCEPT ![f] = values \o output.data[f]]]

\* the body of the inner loop of construct_fields: field f of sub-Block k
add_field(output, values, f) ==
    IF f \notin DOMAIN output.data
    THEN [order |-> Append(output.order, f), data |-> output.data @@ (f :> values)]
    ELSE [order |-> output.order,
          data  |-> [output.data EXCEPT ![f] = output.data[f] \o values]]

RECURSIVE add_fields(_, _, _)
add_fields(output, fields, fs) ==
    IF fs = <<>> THEN output
    ELSE add_fields(add_field(output, fields[Head(fs)], Head(fs)), fields, Tail(fs))

RECURSIVE fields_of_blocks(_, _, _)
\* the loop of construct_fields over the sub-Blocks ks of mesh
fields_of_blocks(output, mesh, ks) ==
    IF ks = <<>> THEN output
    ELSE LET block == mesh[Head(ks)]
             next  == IF "fields" \in DOMAIN block
                      THEN add_fields(output, block.fields,
                                      keys(block.fields, FieldNames))
                      ELSE output
         IN  fields_of_blocks(next, mesh, Tail(ks))

\* {}
empty_dict == [order |-> <<>>, data |-> <<>>]

construct_fields(mesh) ==
    IF "points" \in DOMAIN mesh
    THEN IF "fields" \notin DOMAIN mesh THEN empty_dict
         ELSE [order |-> keys(mesh.fields, FieldNames), data |-> mesh.fields]
    ELSE fields_of_blocks(empty_dict, mesh, keys(mesh, BlockNames))

(***************************************************************************)
(* The files the script may be given.                                      *)
(***************************************************************************)
\* the point array of a Block of spatial dimension d
PointArray(d) ==
    IF d = 1 THEN [shape |-> <<2, 1>>, data |-> <<<<256>>, <<1>>>>]
    ELSE [shape |-> <<1, 2>>, data |-> <<<<1, 256>>>>]

\* the Blocks (without fields) of n cells of v vertices in dimension d
Blocks(d, v, n) ==
    {[points |-> PointArray(d),
      connectivity |-> [shape |-> <<n, v>>, data |-> c]] :
        c \in [1..n -> [1..v -> 0..(PointArray(d).shape[1] - 1)]]}

\* the meshes stored as one Block directly under "mesh"
SingleGeoms(dims, verts, N) ==
    UNION {Blocks(d, v, n) : d \in dims, v \in verts, n \in 0..N}

\* the meshes stored as one or two named sub-Blocks
MultiGeoms(dims, verts, N) ==
    UNION {{("b0" :> x) : x \in Blocks(d, v, n)} :
              d \in dims, v \in verts, n \in 0..N}
    \cup
    UNION {{("b0" :> x) @@ ("b1" :> y) :
               x \in Blocks(d, v, n), y \in Blocks(d, v, m)} :
              d \in dims, v \in verts, n \in 0..N, m \in 0..N}

\* the number of cells of a mesh without fields
num_cells(geom) ==
    IF "points" \in DOMAIN geom THEN geom.connectivity.shape[1]
    ELSE IF DOMAIN geom = {"b0"} THEN geom.b0.connectivity.shape[1]
    ELSE geom.b0.connectivity.shape[1] + geom.b1.connectivity.shape[1]

AllGeoms(dims, verts, N) ==
    {g \in SingleGeoms(dims, verts, N) \cup MultiGeoms(dims, verts, N) :
        num_cells(g) <= N}

\* a Block with or without a "fields" group: one value per cell for each
\* field the group holds
with_fields(block, names, vals) ==
    {block} \cup
    {block @@ ("fields" :> f) :
        f \in UNION {[S -> [1..block.connectivity.shape[1] -> vals]] :
                        S \in (SUBSET names) \ {{}}}}

\* the meshes whose points and connectivity are those of geom
file_contents(geom, names, vals) ==
    IF "points" \in DOMAIN geom THEN with_fields(geom, names, vals)
    ELSE IF DOMAIN geom = {"b0"}
    THEN {("b0" :> x) : x \in with_fields(geom.b0, names, vals)}
    ELSE {("b0" :> x) @@ ("b1" :> y) :
            x \in with_fields(geom.b0, names, vals),
            y \in with_fields(geom.b1, names, vals)}

\* an optional integer argument: <<>> is None
OptInt(S) == {<<>>} \cup {<<n>> : n \in S}

(***************************************************************************)
(* The script.                                                             *)
(***************************************************************************)
\* f"{args.file1}{i}.h5" and f"{args.file1}.h5"
file_name(base, suffix) == [base |-> base, suffix |-> suffix, ext |-> ".h5"]

line(text, a) == [text |-> text, args |-> a]

\* sys.exit(f"files {file1} and {file2} are different")
exit_different(suffix) ==
    [code |-> 1,
     stderr |-> <<"files", file_name("file1", suffix), "and",
                  file_name("file2", suffix), "are different">>]

\* the parsed arguments leave the parser
Init0(Args) ==
    /\ args \in Args
    /\ pc = "main"
    /\ todo = <<>>
    /\ cur = <<>>
    /\ mesh1 = None /\ mesh2 = None
    /\ cells1 = None /\ cells2 = None
    /\ index1 = <<>> /\ index2 = <<>>
    /\ field1 = None /\ field2 = None
    /\ pos = 0
    /\ out = <<>>
    /\ exit = None

\* range(args.start, args.end + 1), or the one comparison without suffix
Dispatch ==
    /\ pc = "main"
    /\ todo' = IF args.start # <<>> /\ args.end # <<>>
               THEN [k \in 1..(args.end[1] + 1 - args.start[1]) |->
                        <<args.start[1] + k - 1>>]
               ELSE <<<<>>>>
    /\ pc' = "for"
    /\ UNCHANGED <<args, cur, mesh1, mesh2, cells1, cells2, index1, index2,
                   field1, field2, pos, out, exit>>

\* compare_meshes is entered for the next suffix: both files are opened,
\* the cells are built and sorted
OpenMeshes(G1, G2) ==
    /\ pc = "for"
    /\ todo # <<>>
    /\ \E g1 \in G1, g2 \in G2 :
         /\ mesh1' = g1
         /\ mesh2' = g2
         /\ cells1' = construct_cells(g1)
         /\ cells2' = construct_cells(g2)
         /\ index1' = argsort(sort_keys(construct_cells(g1)))
         /\ index2' = argsort(sort_keys(construct_cells(g2)))
    /\ cur' = Head(todo)
    /\ todo' = Tail(todo)
    /\ pc' = "shape"
    /\ UNCHANGED <<args, field1, field2, pos, out, exit>>

\* a shape check that looks at the number of cells only
shape_differs_count(c1, c2) == c1.shape[1] # c2.shape[1]

\* np.any(cells1.shape != cells2.shape)
shape_differs(c1, c2) == c1.shape # c2.shape

ShapeCheck ==
    /\ pc = "shape"
    /\ IF shape_differs(cells1, cells2)
       THEN /\ out' = out \o <<line("shape are not compatibles", <<>>),
                               line("vs", <<cells1.shape, cells2.shape>>)>>
            /\ exit' = exit_different(cur)
            /\ pc' = "exited"
       ELSE /\ pc' = "topology"
            /\ UNCHANGED <<out, exit>>
    /\ UNCHANGED <<args, todo, cur, mesh1, mesh2, cells1, cells2, index1,
                   index2, field1, field2, pos>>

\* a cell comparison that forgets to reorder the second array
cells_differ_unsorted(c1, i1, c2, i2) == take(c1.data, i1) # c2.data

\* np.any(cells1[index1] != cells2[index2])
cells_differ(c1, i1, c2, i2) == take(c1.data, i1) # take(c2.data, i2)

TopologyCheck ==
    /\ pc = "topology"
    /\ IF cells_differ(cells1, index1, cells2, index2)
       THEN /\ out' = Append(out, line("cells are not the same", <<>>))
            /\ exit' = exit_different(cur)
            /\ pc' = "exited"
       ELSE /\ pc' = "construct_fields"
            /\ UNCHANGED <<out, exit>>
    /\ UNCHANGED <<args, todo, cur, mesh1, mesh2, cells1, cells2, index1,
                   index2, field1, field2, pos>>

\* the field groups of both files are read and assembled
ReadFields(N1, V1, N2, V2) ==
    /\ pc = "construct_fields"
    /\ \E m1 \in file_contents(mesh1, N1, V1), m2 \in file_contents(mesh2, N2, V2) :
         /\ mesh1' = m1
         /\ mesh2' = m2
         /\ field1' = construct_fields(m1)
         /\ field2' = construct_fields(m2)
    /\ pos' = 1
    /\ pc' = "fields"
    /\ UNCHANGED <<args, todo, cur, cells1, cells2, index1, index2, out, exit>>

\* a tolerance test that rejects the boundary
beyond_or_at(x, y) == np_abs(x - y) >= tol

\* np.abs(a[index1] - b[index2]) > tol, elementwise
beyond(x, y) == np_abs(x - y) > tol

\* np.where(np.abs(a[i1] - b[i2]) > tol): the 0-based positions
where_beyond(a, i1, b, i2) ==
    LET js == SelectSeq([j \in 1..Len(i1) |-> j],
                        LAMBDA j : beyond(take(a, i1)[j], take(b, i2)[j]))
    IN  [k \in 1..Len(js) |-> js[k] - 1]

\* a loop body that skips the fields the second file lacks
field_check_skip(field, f1, i1, f2, i2) ==
    IF field \notin DOMAIN f2.data THEN "ok"
    ELSE IF ~in_bounds(f1.data[field], i1) \/ ~in_bounds(f2.data[field], i2)
    THEN "IndexError"
    ELSE IF where_beyond(f1.data[field], i1, f2.data[field], i2) # <<>>
    THEN "differs"
    ELSE "ok"

\* the outcome of one turn of the loop over field1.keys()
field_check(field, f1, i1, f2, i2) ==
    IF field \notin DOMAIN f2.data THEN "missing"
    ELSE IF ~in_bounds(f1.data[field], i1) \/ ~in_bounds(f2.data[field], i2)
    THEN "IndexError"
    ELSE IF where_beyond(f1.data[field], i1, f2.data[field], i2) # <<>>
    THEN "differs"
    ELSE "ok"

RECURSIVE fields_verdict(_, _, _, _, _)
\* the outcome of the whole loop over the keys `order` of f1: the first
\* turn that does not pass decides
fields_verdict(order, f1, i1, f2, i2) ==
    IF order = <<>> THEN "same"
    ELSE LET result == field_check(Head(order), f1, i1, f2, i2)
         IN  IF result = "ok" THEN fields_verdict(Tail(order), f1, i1, f2, i2)
             ELSE IF result = "IndexError" THEN "error"
             ELSE "different"

\* the lines printed when a field differs
diagnostic(field) ==
    LET a   == field1.data[field]
        b   == field2.data[field]
        ind == where_beyond(a, index1, b, index2)
        x   == take(a, take(index1, ind))
        y   == take(b, take(index2, ind))
    IN  <<line("values", <<x, y, [k \in 1..Len(ind) |-> np_abs(x[k] - y[k])]>>),
          line("cells", <<take(cells1.data, take(index1, ind)),
                          take(cells2.data, take(index2, ind))>>),
          line("is not the same", <<field>>)>>

\* a loop that returns to the caller when a field differs
CheckField_returns ==
    /\ pc = "fields"
    /\ pos <= Len(field1.order)
    /\ LET field  == field1.order[pos]
           result == field_check(field, field1, index1, field2, index2)
       IN  CASE result = "missing" ->
                  /\ out' = Append(out, line("is not in second file", <<field>>))
                  /\ exit' = exit_different(cur)
                  /\ pc' = "exited"
                  /\ pos' = pos
             [] result = "IndexError" ->
                  /\ exit' = [code |-> 1, stderr |-> <<"Traceback", "IndexError">>]
                  /\ pc' = "exited"
                  /\ UNCHANGED <<out, pos>>
             [] result = "differs" ->
                  /\ out' = out \o diagnostic(field)
                  /\ pc' = "for"
                  /\ UNCHANGED <<exit, pos>>
             [] OTHER ->
                  /\ pos' = pos + 1
                  /\ UNCHANGED <<pc, out, exit>>
    /\ UNCHANGED <<args, todo, cur, mesh1, mesh2, cells1, cells2, index1,
                   index2, field1, field2>>

CheckField ==
    /\ pc = "fields"
    /\ pos <= Len(field1.order)
    /\ LET field  == field1.order[pos]
           result == field_check(field, field1, index1, field2, index2)
       IN  CASE result = "missing" ->
                  /\ out' = Append(out, line("is not in second file", <<field>>))
                  /\ exit' = exit_different(cur)
                  /\ pc' = "exited"
                  /\ pos' = pos
             [] result = "IndexError" ->
                  /\ exit' = [code |-> 1, stderr |-> <<"Traceback", "IndexError">>]
                  /\ pc' = "exited"
                  /\ UNCHANGED <<out, pos>>
             [] result = "differs" ->
                  /\ out' = out \o diagnostic(field)
                  /\ exit' = [code |-> 0, stderr |-> <<>>]
                  /\ pc' = "exited"
                  /\ pos' = pos
             [] OTHER ->
                  /\ pos' = pos + 1
                  /\ UNCHANGED <<pc, out, exit>>
    /\ UNCHANGED <<args, todo, cur, mesh1, mesh2, cells1, cells2, index1,
                   index2, field1, field2>>

\* every field of field1 passed: the success line, and compare_meshes
\* returns
ReportSame ==
    /\ pc = "fields"
    /\ pos > Len(field1.order)
    /\ out' = Append(out, line("are the same",
                               <<file_name("file1", cur), file_name("file2", cur)>>))
    /\ pc' = "for"
    /\ mesh1' = None /\ mesh2' = None
    /\ cells1' = None /\ cells2' = None
    /\ index1' = <<>> /\ index2' = <<>>
    /\ field1' = None /\ field2' = None
    /\ pos' = 0
    /\ UNCHANGED <<args, todo, cur, exit>>

\* the script reaches its end
Finish ==
    /\ pc = "for"
    /\ todo = <<>>
    /\ pc' = "done"
    /\ exit' = [code |-> 0, stderr |-> <<>>]
    /\ UNCHANGED <<args, todo, cur, mesh1, mesh2, cells1, cells2, index1,
                   index2, field1, field2, pos, out>>

(***************************************************************************)
(* Specifications.  Each runs the same script on its own set of files.     *)
(***************************************************************************)
NoRange == {[start |-> <<>>, end |-> <<>>]}

\* Spec: one comparison of two single-Block meshes of any shape, with one
\* field
GeomsA == SingleGeoms({1, 2}, {1, 2}, MaxCells)
NamesA == {"pressure"}
ValsA == {0, 10, 100}

Init == Init0(NoRange)

Next ==
    \/ Dispatch
    \/ OpenMeshes(GeomsA, GeomsA)
    \/ ShapeCheck
    \/ TopologyCheck
    \/ ReadFields(NamesA, ValsA, NamesA, ValsA)
    \/ CheckField
    \/ ReportSame
    \/ Finish

Spec == Init /\ [][Next]_vars

\* SpecBlocks: one comparison of two meshes of one-vertex cells on a line,
\* each stored as one Block or as one or two sub-Blocks, with one field
GeomsB == AllGeoms({1}, {1}, MaxCells)
ValsB == {0, 100}

NextBlocks ==
    \/ Dispatch
    \/ OpenMeshes(GeomsB, GeomsB)
    \/ ShapeCheck
    \/ TopologyCheck
    \/ ReadFields(NamesA, ValsB, NamesA, ValsB)
    \/ CheckField
    \/ ReportSame
    \/ Finish

SpecBlocks == Init /\ [][NextBlocks]_vars

\* SpecNames: one comparison of two single-Block meshes of one-vertex cells
\* on a line, with two field names
GeomsN == SingleGeoms({1}, {1}, MaxCells)
NamesN == {"pressure", "velocity"}
ValsN == {0}

NextNames ==
    \/ Dispatch
    \/ OpenMeshes(GeomsN, GeomsN)
    \/ ShapeCheck
    \/ TopologyCheck
    \/ ReadFields(NamesN, ValsN, NamesN, ValsB)
    \/ CheckField
    \/ ReportSame
    \/ Finish

SpecNames == Init /\ [][NextNames]_vars

\* SpecConcat: one comparison of a mesh stored as one or two sub-Blocks
\* with a single-Block mesh, with two field names
GeomsC == {g \in MultiGeoms({1}, {1}, MaxCells) : num_cells(g) <= MaxCells}

NextConcat ==
    \/ Dispatch
    \/ OpenMeshes(GeomsC, GeomsN)
    \/ ShapeCheck
    \/ TopologyCheck
    \/ ReadFields(NamesN, ValsN, NamesN, ValsB)
    \/ CheckField
    \/ ReportSame
    \/ Finish

SpecConcat == Init /\ [][NextConcat]_vars

\* SpecRange: every command line with --start and --end up to MaxIndex, on
\* single-Block meshes of at most one cell with one field
Ranges == [start : OptInt(0..MaxIndex), end : OptInt(0..MaxIndex)]
GeomsR == {g \in GeomsN : num_cells(g) <= 1}

InitRange == Init0(Ranges)

NextRange ==
    \/ Dispatch
    \/ OpenMeshes(GeomsR, GeomsR)
    \/ ShapeCheck
    \/ TopologyCheck
    \/ ReadFields(NamesA, ValsB, NamesA, ValsB)
    \/ CheckField
    \/ ReportSame
    \/ Finish

SpecRange == InitRange /\ [][NextRange]_vars

(***************************************************************************)
(* Vocabulary of the properties.                                           *)
(***************************************************************************)
\* a comparison has read its cells (they stay after an exit)
Comparing == pc \in {"shape", "topology", "construct_fields", "fields", "exited"}

FieldsRead == Comparing /\ field1 # None

\* every field of field1 has passed
AllPassed == pc = "fields" /\ pos > Len(field1.order)

LastLine == out[Len(out)]

ExitedShape ==
    /\ pc = "exited" /\ Len(out) >= 2
    /\ out[Len(out) - 1].text = "shape are not compatibles"

ExitedTopology ==
    pc = "exited" /\ out # <<>> /\ LastLine.text = "cells are not the same"

ExitedMissing ==
    pc = "exited" /\ out # <<>> /\ LastLine.text = "is not in second file"

ExitedDiffers ==
    pc = "exited" /\ out # <<>> /\ LastLine.text = "is not the same"

ExitedError == pc = "exited" /\ exit.code = 1 /\ Len(exit.stderr) = 2

\* the lines of out that report a problem
ProblemLines ==
    SelectSeq(out, LAMBDA l : l.text \in {"shape are not compatibles",
                                          "cells are not the same",
                                          "is not in second file",
                                          "is not the same"})

\* the Blocks of a mesh, in iteration order
blocks_of(mesh) ==
    IF "points" \in DOMAIN mesh THEN <<mesh>>
    ELSE [k \in 1..Len(keys(mesh, BlockNames)) |-> mesh[keys(mesh, BlockNames)[k]]]

\* (cell count, vertices per cell, spatial dimension) read off the file
mesh_shape(mesh) ==
    <<num_cells(mesh), blocks_of(mesh)[1].connectivity.shape[2],
      blocks_of(mesh)[1].points.shape[2]>>

\* the number of times x occurs in the sequence s
count(s, x) == Cardinality({i \in 1..Len(s) : s[i] = x})

\* s and t hold the same items the same number of times
SameBag(s, t) ==
    /\ Len(s) = Len(t)
    /\ \A i \in 1..Len(s) : count(s, s[i]) = count(t, s[i])

\* the coordinate tuple of cell i of a single-Block mesh
coords(m, i) ==
    [k \in 1..Len(m.connectivity.data[i]) |->
        m.points.data[m.connectivity.data[i][k] + 1]]

\* m2 is the single-Block mesh m1 with its cells, and every field with
\* them, reordered by p
permuted_copy(m1, m2, p) ==
    /\ m2.points = m1.points
    /\ m2.connectivity.shape = m1.connectivity.shape
    /\ m2.connectivity.data =
         [i \in 1..Len(m1.connectivity.data) |-> m1.connectivity.data[p[i]]]
    /\ DOMAIN m2 = DOMAIN m1
    /\ "fields" \in DOMAIN m1 =>
         /\ DOMAIN m2.fields = DOMAIN m1.fields
         /\ \A f \in DOMAIN m1.fields :
              m2.fields[f] = [i \in 1..Len(m1.fields[f]) |-> m1.fields[f][p[i]]]

PermutedCopy ==
    /\ Comparing
    /\ \E p \in Permutations(1..num_cells(mesh1)) : permuted_copy(mesh1, mesh2, p)

\* cells of mesh1 with the same coordinates carry the same field values
TwinsAgree ==
    \A i, j \in 1..num_cells(mesh1) :
        (coords(mesh1, i) = coords(mesh1, j) /\ "fields" \in DOMAIN mesh1) =>
            \A f \in DOMAIN mesh1.fields : mesh1.fields[f][i] = mesh1.fields[f][j]

(***************************************************************************)
(* Properties of one comparison (Spec).                                    *)
(***************************************************************************)
\* C1 (as stated): whenever the second mesh is the first with its cells and
\* fields reordered by one permutation, the comparison never exits; this
\* includes meshes in which two cells have the same coordinates and
\* different field values.
PermutationInvariance == PermutedCopy => pc # "exited"

\* C1 (amended): whenever the second mesh is the first with its cells and
\* fields reordered by one permutation, and cells of the mesh that have
\* identical coordinate tuples carry identical field values, the comparison
\* passes the shape, topology and field checks: it never exits, and goes on
\* to print that the files are the same.
PermutationInvarianceDistinct ==
    (PermutedCopy /\ TwinsAgree) =>
        /\ pc # "exited"
        /\ pc = "shape" => ~shape_differs(cells1, cells2)
        /\ pc = "topology" => ~cells_differ(cells1, index1, cells2, index2)

\* the second mesh is a reordered copy with a field, the order differs, and
\* the comparison is about to print that the files are the same
PermutedPasses ==
    /\ AllPassed
    /\ PermutedCopy
    /\ TwinsAgree
    /\ num_cells(mesh1) = 2
    /\ mesh1.connectivity.data[1] # mesh1.connectivity.data[2]
    /\ mesh2.connectivity.data # mesh1.connectivity.data
    /\ "fields" \in DOMAIN mesh1
    /\ \E f \in DOMAIN mesh1.fields : mesh1.fields[f][1] # mesh1.fields[f][2]

\* C7: whenever the two meshes differ in cell count, vertices per cell or
\* spatial dimension, the comparison prints both shapes and exits with the
\* "files ... are different" message, and it has neither reported on the
\* cells nor read a field.
ShapeMismatchDetection ==
    (Comparing /\ pc # "shape" /\ mesh_shape(mesh1) # mesh_shape(mesh2)) =>
        /\ pc = "exited"
        /\ Len(out) = 2
        /\ out[1].text = "shape are not compatibles"
        /\ out[2].args = <<mesh_shape(mesh1), mesh_shape(mesh2)>>
        /\ exit = exit_different(cur)
        /\ field1 = None /\ field2 = None

\* two meshes with cells, the same cell count and vertices per cell, and
\* different spatial dimensions have been told apart
ShapeMismatchSeen ==
    /\ ExitedShape
    /\ mesh_shape(mesh1)[1] = 2
    /\ mesh_shape(mesh1)[1] = mesh_shape(mesh2)[1]
    /\ mesh_shape(mesh1)[2] = mesh_shape(mesh2)[2]
    /\ mesh_shape(mesh1)[3] # mesh_shape(mesh2)[3]

\* C10: for two meshes of equal shape the topology check passes exactly
\* when the two cell arrays hold the same coordinate tuples the same number
\* of times; when it fails the process exits with the "files ... are
\* different" message and no field has been read; a run reports one
\* problem at most, a topology problem only for meshes of equal shape and a
\* field problem only for meshes of equal shape and equal cells.
TopologyFirstFailureWins ==
    /\ (Comparing /\ pc \notin {"shape", "topology"}
          /\ mesh_shape(mesh1) = mesh_shape(mesh2)) =>
         IF SameBag(cells1.data, cells2.data)
         THEN ~ExitedTopology /\ ~ExitedShape
         ELSE /\ ExitedTopology
              /\ exit = exit_different(cur)
              /\ field1 = None /\ field2 = None
    /\ Len(ProblemLines) <= 1
    /\ (pc = "exited" /\ ~ExitedError) => Len(ProblemLines) = 1
    /\ ExitedTopology => mesh_shape(mesh1) = mesh_shape(mesh2)
    /\ (ExitedMissing \/ ExitedDiffers \/ ExitedError) =>
         /\ mesh_shape(mesh1) = mesh_shape(mesh2)
         /\ SameBag(cells1.data, cells2.data)

\* two meshes whose cells are stored in different orders have passed the
\* topology check
TopologyPassedReordered ==
    /\ pc = "construct_fields"
    /\ cells1.data # cells2.data
    /\ Len(cells1.data) = 2

\* C8: with T = 10 units, a field that is in both files fails its check
\* exactly when some aligned pair of values differs by more than T in
\* absolute value: a field that has passed has no aligned pair further
\* apart than T (a pair exactly T apart passes), and a field reported as
\* not the same has a pair more than T apart (10 T apart, in one sign or
\* the other, is such a pair).
ToleranceBoundary ==
    LET f == "pressure"
        d(j) == field1.data[f][index1[j] + 1] - field2.data[f][index2[j] + 1]
    IN  /\ (pc = "fields" /\ pos > 1 /\ f \in DOMAIN field1.data) =>
             \A j \in 1..Len(index1) : d(j) <= 10 /\ -d(j) <= 10
        /\ ExitedDiffers =>
             \E j \in 1..Len(index1) : d(j) > 10 \/ -d(j) > 10
        /\ (FieldsRead /\ f \in DOMAIN field1.data /\ f \in DOMAIN field2.data
              /\ \E j \in 1..Len(index1) : d(j) = 100 \/ d(j) = -100) =>
             (pc = "fields" => pos = 1) /\ (pc = "exited" => ExitedDiffers)

\* a field whose values are exactly T apart, in both signs, has passed
BoundaryPasses ==
    /\ pc = "fields" /\ pos > 1 /\ "pressure" \in DOMAIN field1.data
    /\ Len(index1) = 2
    /\ \E j, k \in 1..2 :
         /\ field1.data["pressure"][index1[j] + 1]
              - field2.data["pressure"][index2[j] + 1] = 10
         /\ field1.data["pressure"][index1[k] + 1]
              - field2.data["pressure"][index2[k] + 1] = -10

\* C2: every exit on a mismatch has a non-zero exit status, and only the
\* script that found no mismatch ends with status 0.
MismatchExitsNonZero ==
    /\ pc = "exited" => exit.code # 0
    /\ (exit # None /\ exit.code = 0) => pc = "done"

(***************************************************************************)
(* Properties of the Mesh Assembler (SpecBlocks, SpecNames).               *)
(***************************************************************************)
\* the number of cells of a Block
block_cells(b) == b.connectivity.shape[1]

\* the field names a Block carries
block_fields(b) == IF "fields" \in DOMAIN b THEN DOMAIN b.fields ELSE {}

\* the field names a mesh carries in any of its Blocks
mesh_fields(mesh) ==
    UNION {block_fields(blocks_of(mesh)[k]) : k \in 1..Len(blocks_of(mesh))}

\* every field of the mesh is stored in every Block that holds cells
FullFields(mesh) ==
    \A k \in 1..Len(blocks_of(mesh)) :
        block_cells(blocks_of(mesh)[k]) > 0 =>
            block_fields(blocks_of(mesh)[k]) = mesh_fields(mesh)

RECURSIVE owners_from(_, _)
\* for each cell of the mesh, in Block-iteration order, the Block that
\* holds it and its position there
owners_from(bs, k) ==
    IF k > Len(bs) THEN <<>>
    ELSE [i \in 1..block_cells(bs[k]) |-> <<k, i>>] \o owners_from(bs, k + 1)

\* every field sequence has one value per cell, and the value at position
\* i is the one stored for the cell at position i
FieldBelongs(mesh, cells, field) ==
    LET bs == blocks_of(mesh)
        ow == owners_from(bs, 1)
    IN  /\ Len(cells.data) = Len(ow)
        /\ \A i \in 1..Len(ow) : cells.data[i] = coords(bs[ow[i][1]], ow[i][2])
        /\ \A f \in DOMAIN field.data :
             /\ Len(field.data[f]) = Len(cells.data)
             /\ \A i \in 1..Len(ow) :
                  /\ f \in block_fields(bs[ow[i][1]])
                  /\ field.data[f][i] = bs[ow[i][1]].fields[f][ow[i][2]]

\* C9 (as stated): for every mesh, whichever sub-Blocks carry a field, each
\* field sequence has as many values as there are cells and its value at
\* position i belongs to the cell at position i.
FieldMappingInvariant ==
    FieldsRead =>
        /\ FieldBelongs(mesh1, cells1, field1)
        /\ FieldBelongs(mesh2, cells2, field2)

\* C9 (amended): for every mesh in which each field is stored in every
\* sub-Block that holds cells, each field sequence returned by
\* construct_fields has as many values as construct_cells returns cells,
\* and its value at position i belongs to the cell at position i.
FieldMappingInvariantFull ==
    FieldsRead =>
        /\ FullFields(mesh1) => FieldBelongs(mesh1, cells1, field1)
        /\ FullFields(mesh2) => FieldBelongs(mesh2, cells2, field2)

\* a field with two different values has been assembled from two
\* sub-Blocks that both carry it
FieldAssembledFromBlocks ==
    /\ FieldsRead
    /\ DOMAIN mesh1 = {"b0", "b1"}
    /\ block_cells(mesh1.b0) = 1 /\ block_cells(mesh1.b1) = 1
    /\ FullFields(mesh1)
    /\ "pressure" \in DOMAIN field1.data
    /\ field1.data["pressure"] = <<0, 100>>

\* C6 (as stated): a mesh compared with itself never exits, also when a
\* field is stored in only some of its sub-Blocks.
Reflexivity == (Comparing /\ mesh1 = mesh2) => pc # "exited"

\* C6 (amended): a mesh in which each field is stored in every sub-Block
\* that holds cells, compared with itself, passes the shape, topology and
\* field checks: it never exits, and goes on to print that the files are
\* the same.
ReflexivityFull ==
    (Comparing /\ mesh1 = mesh2 /\ FullFields(mesh1)) =>
        /\ pc # "exited"
        /\ pc = "shape" => ~shape_differs(cells1, cells2)
        /\ pc = "topology" => ~cells_differ(cells1, index1, cells2, index2)

\* a mesh of two sub-Blocks with a field, whose cells are not stored in
\* sorted order, compared with itself is about to be reported the same
ReflexivePasses ==
    /\ AllPassed
    /\ mesh1 = mesh2
    /\ DOMAIN mesh1 = {"b0", "b1"}
    /\ block_cells(mesh1.b0) = 1 /\ block_cells(mesh1.b1) = 1
    /\ index1 = <<1, 0>>
    /\ field1.order = <<"pressure">>
    /\ field1.data["pressure"] = <<100, 0>>

RECURSIVE concat_points(_), concat_conn(_, _), concat_field(_, _)
\* the point rows of the Blocks bs, one Block after the other
concat_points(bs) ==
    IF bs = <<>> THEN <<>> ELSE Head(bs).points.data \o concat_points(Tail(bs))

\* the connectivity rows of the Blocks bs, renumbered for the points of
\* the Blocks before them (shift rows)
concat_conn(bs, shift) ==
    IF bs = <<>> THEN <<>>
    ELSE [i \in 1..block_cells(Head(bs)) |->
            [j \in 1..Len(Head(bs).connectivity.data[i]) |->
                Head(bs).connectivity.data[i][j] + shift]]
         \o concat_conn(Tail(bs), shift + Head(bs).points.shape[1])

\* the values of field f in the Blocks bs that carry it
concat_field(bs, f) ==
    IF bs = <<>> THEN <<>>
    ELSE (IF f \in block_fields(Head(bs)) THEN Head(bs).fields[f] ELSE <<>>)
         \o concat_field(Tail(bs), f)

\* the single-Block mesh that holds the cells and fields of the Blocks of
\* mesh, concatenated in Block-iteration order
concat_block(mesh) ==
    LET bs == blocks_of(mesh)
        geom == [points |-> [shape |-> <<Len(concat_points(bs)),
                                         bs[1].points.shape[2]>>,
                             data |-> concat_points(bs)],
                 connectivity |-> [shape |-> <<Len(concat_conn(bs, 0)),
                                               bs[1].connectivity.shape[2]>>,
                                   data |-> concat_conn(bs, 0)]]
    IN  IF mesh_fields(mesh) = {} THEN geom
        ELSE geom @@ ("fields" :> [f \in mesh_fields(mesh) |-> concat_field(bs, f)])

\* construct_cells and construct_fields give the same arrays for the mesh
\* (cells and field as assembled from it) and for its single-Block form
SameAssembly(mesh, cells, field) ==
    LET single == concat_block(mesh)
        fields == construct_fields(single)
    IN  /\ construct_cells(single) = cells
        /\ field # None =>
             /\ DOMAIN fields.data = DOMAIN field.data
             /\ \A f \in DOMAIN field.data : fields.data[f] = field.data[f]

\* the outcome the script has reached is the one fields_verdict computes
VerdictReached ==
    LET stored == fields_verdict(field1.order, field1, index1, field2, index2)
    IN  /\ AllPassed => stored = "same"
        /\ (ExitedMissing \/ ExitedDiffers) => stored = "different"
        /\ ExitedError => stored = "error"

\* the comparison passes with the first mesh in its stored form exactly
\* when it passes with its single-Block form, as the first file and as the
\* second
SameVerdict ==
    LET concat == construct_fields(concat_block(mesh1))
    IN  /\ (fields_verdict(concat.order, concat, index1, field2, index2) = "same")
             = (fields_verdict(field1.order, field1, index1, field2, index2) = "same")
        /\ (fields_verdict(field2.order, field2, index2, concat, index1) = "same")
             = (fields_verdict(field2.order, field2, index2, field1, index1) = "same")

turn_of(f) == CHOOSE k \in 1..Len(field1.order) : field1.order[k] = f

\* field2 without the names field1 does not have
common_fields ==
    [order |-> SelectSeq(field2.order, LAMBDA f : f \in DOMAIN field1.data),
     data  |-> [f \in DOMAIN field2.data \cap DOMAIN field1.data |-> field2.data[f]]]

\* C4 (as stated): a field name the first file has and the second lacks
\* always makes the comparison exit with the message that names that
\* field, and the names only the second file has never change the outcome.
MissingFieldNamed ==
    FieldsRead =>
        /\ \A f \in DOMAIN field1.data \ DOMAIN field2.data :
             /\ ~AllPassed
             /\ pc = "exited" => (ExitedMissing /\ LastLine.args = <<f>>)
        /\ VerdictReached
        /\ fields_verdict(field1.order, field1, index1, field2, index2) =
             fields_verdict(field1.order, field1, index1, common_fields, index2)

\* C4 (amended): a field name the first file has and the second lacks
\* always makes the comparison fail: it is never reported the same, it
\* exits at that field's turn at the latest, and when it exits at that
\* field's turn the message names that field (an earlier field of the first
\* file that fails is reported instead); the names only the second file has
\* never change the outcome.
MissingFieldFails ==
    FieldsRead =>
        /\ \A f \in DOMAIN field1.data \ DOMAIN field2.data :
             /\ ~AllPassed
             /\ pos <= turn_of(f)
             /\ (pc = "exited" /\ pos = turn_of(f)) =>
                  /\ ExitedMissing
                  /\ LastLine.args = <<f>>
                  /\ exit = exit_different(cur)
        /\ VerdictReached
        /\ fields_verdict(field1.order, field1, index1, field2, index2) =
             fields_verdict(field1.order, field1, index1, common_fields, index2)

\* the first file's second field is missing from the second file and has
\* been reported, after its first field passed
SecondFieldMissing ==
    /\ ExitedMissing
    /\ pos = 2
    /\ LastLine.args = <<"velocity">>
    /\ DOMAIN field2.data = {"pressure"}
    /\ Len(index1) = 2

(***************************************************************************)
(* Properties of the range mode (SpecRange).                               *)
(***************************************************************************)
RangeMode == args.start # <<>> /\ args.end # <<>>

SuccessLines == SelectSeq(out, LAMBDA l : l.text = "are the same")

\* the suffixes <<a>>, ..., <<b>>
suffixes(a, b) == [k \in 1..(b + 1 - a) |-> <<a + k - 1>>]

\* C3: with --start and --end the pairs of files are compared in
\* increasing order of the index from start to end; every index before the
\* one in progress has printed its success line, in order, and nothing
\* else is printed before a failure; the index whose comparison fails, for
\* whatever mismatch, ends the process, so that no later index is compared
\* or reported; a run without failure reports every index of the range.
RangeSequencing ==
    (RangeMode /\ pc # "main") =>
        LET s == args.start[1]
            e == args.end[1]
            n == Len(SuccessLines)
        IN  /\ \A k \in 1..n :
                 /\ out[k] = SuccessLines[k]
                 /\ out[k].args = <<file_name("file1", <<s + k - 1>>),
                                    file_name("file2", <<s + k - 1>>)>>
            /\ Comparing => (cur = <<s + n>> /\ s + n <= e)
            /\ todo = suffixes(s + n + (IF Comparing THEN 1 ELSE 0), e)
            /\ pc = "exited" => ~ENABLED NextRange
            /\ pc = "done" => (n = IF e < s THEN 0 ELSE e + 1 - s)

\* a field value mismatch at an index after the first and before the last
\* has ended the run
RangeStoppedByField ==
    /\ RangeMode
    /\ ExitedDiffers
    /\ Len(SuccessLines) = 1
    /\ todo # <<>>

====
